---- MODULE Spec2Model ----
(***************************************************************************)
(* The Gravity model of skmob/models/gravity.py: one Gravity instance, its *)
(* configuration, and the two operations generate and fit.                 *)
(*                                                                         *)
(* Floating point values are exact rationals extended with NaN and Inf     *)
(* (records [k, n, d]); rounding is not modelled.  Locations are indexed   *)
(* 1..n (the code's 0..n-1).                                               *)
(***************************************************************************)
EXTENDS Integers, Sequences, FiniteSets, TLC

VARIABLES
    deterrence_func_type,   \* self._deterrence_func_type
    deterrence_func,        \* self._deterrence_func (chosen once, in __init__)
    deterrence_func_args,   \* self._deterrence_func_args, a one-element list
    origin_exp,             \* self._origin_exp
    destination_exp,        \* self._destination_exp
    gravity_type,           \* self._gravity_type
    pc,                     \* "idle": no call made yet or result consumed; "returned": a call just ended
    call,                   \* the arguments of the last call
    result                  \* what the last call computed and returned or raised

vars == <<deterrence_func_type, deterrence_func, deterrence_func_args, origin_exp,
          destination_exp, gravity_type, pc, call, result>>

config == <<deterrence_func_type, deterrence_func_args, origin_exp,
            destination_exp, gravity_type>>

-----------------------------------------------------------------------------
(* Bounds of the explored inputs *)

NLocs == 3
MaxRelevance == 2
MaxOutflow == 1
MaxDist == 2
MaxRecords == 2
MaxFlow == 2
FitLocs == 2

\* centroid distances returned by distfunc; even, so that x / R is integral
\* for every deterrence parameter R explored
Distances == {2 * k : k \in 1..MaxDist}
\* values of exponents and deterrence parameters: constructor arguments and
\* fitted coefficients
ParamValues == {-2, 1}
DeterrenceTypes == {"power_law", "exponential"}
GravityTypes == {"singly constrained", "globally constrained"}
OutFormats == {"flows", "probabilities", "matrix"}
\* the tile identifiers of the tessellation, in row order, and one identifier
\* that no tessellation holds
TileIds == <<"A", "B", "C", "D", "E", "F">>
UnknownId == "Z"

-----------------------------------------------------------------------------
(* Extended rational arithmetic (IEEE semantics for 0, Inf and NaN) *)

Abs(x) == IF x < 0 THEN -x ELSE x

RECURSIVE GCD(_, _)
GCD(a, b) == IF b = 0 THEN a ELSE GCD(b, a % b)

Fin(n, d) ==
    LET s == IF d < 0 THEN -1 ELSE 1
        g == GCD(Abs(n), Abs(d))
    IN  [k |-> "fin", n |-> (s * n) \div g, d |-> (s * d) \div g]

Num(i) == [k |-> "fin", n |-> i, d |-> 1]
NaN == [k |-> "nan", n |-> 0, d |-> 1]
Inf == [k |-> "inf", n |-> 1, d |-> 1]
Zero == Num(0)
One == Num(1)

IsFinite(v) == v.k = "fin"
IsNaN(v) == v.k = "nan"
IsInf(v) == v.k = "inf"
IsPositive(v) == IsInf(v) \/ (IsFinite(v) /\ v.n > 0)   \* v > 0. ; False for NaN

\* product of non-negative floats
FMul(a, b) ==
    IF IsNaN(a) \/ IsNaN(b) THEN NaN
    ELSE IF IsInf(a) THEN (IF IsFinite(b) /\ b.n = 0 THEN NaN ELSE Inf)
    ELSE IF IsInf(b) THEN (IF a.n = 0 THEN NaN ELSE Inf)
    ELSE Fin(a.n * b.n, a.d * b.d)

\* sum of non-negative floats
FAdd(a, b) ==
    IF IsNaN(a) \/ IsNaN(b) THEN NaN
    ELSE IF IsInf(a) \/ IsInf(b) THEN Inf
    ELSE Fin(a.n * b.d + b.n * a.d, a.d * b.d)

FSub(a, b) == Fin(a.n * b.d - b.n * a.d, a.d * b.d)

\* quotient of non-negative floats; numpy gives 0/0 = nan and x/0 = inf with
\* a RuntimeWarning, no exception
FDiv(a, b) ==
    IF IsNaN(a) \/ IsNaN(b) THEN NaN
    ELSE IF IsInf(a) THEN (IF IsInf(b) THEN NaN ELSE Inf)
    ELSE IF IsInf(b) THEN Zero
    ELSE IF b.n = 0 THEN (IF a.n = 0 THEN NaN ELSE Inf)
    ELSE Fin(a.n * b.d, a.d * b.n)

FLess(a, b) == a.n * b.d < b.n * a.d      \* finite a < finite b

RECURSIVE IPow(_, _)
IPow(b, e) == IF e = 0 THEN 1 ELSE b * IPow(b, e - 1)

\* np.power(x, e) for a finite x >= 0 and an integral e: 0 ** 0 = 1 and
\* 0 ** e = inf for e < 0
FPow(x, e) ==
    IF e >= 0 THEN Fin(IPow(x.n, e), IPow(x.d, e))
    ELSE IF x.n = 0 THEN Inf
    ELSE Fin(IPow(x.d, -e), IPow(x.n, -e))

RECURSIVE FSum(_)
FSum(s) == IF s = <<>> THEN Zero ELSE FAdd(Head(s), FSum(Tail(s)))

\* np.exp(q) for an integral q.  The radix e is represented by the integer 3:
\* what the model uses of exp is exp(0) = 1, exp(q) > 0 and
\* exp(p + q) = exp(p) * exp(q).
FExp(q) == IF q >= 0 THEN Num(IPow(3, q)) ELSE Fin(1, IPow(3, -q))

-----------------------------------------------------------------------------
(* Deterrence functions *)

\* np.exp(- x / R); x >= 0.  R = 0.0: -x / 0.0 is -inf (exp gives 0) for
\* x > 0 and nan for x = 0.
exponential_deterrence_func(x, R) ==
    IF R = 0 THEN (IF x = 0 THEN NaN ELSE Zero)
    ELSE FExp((-x) \div R)

powerlaw_deterrence_func(x, exponent) == FPow(Num(x), exponent)

\* __init__: any type other than 'exponential' selects the power law
SelectDeterrenceFunc(type) ==
    IF type = "power_law" THEN "powerlaw_deterrence_func"
    ELSE IF type = "exponential" THEN "exponential_deterrence_func"
    ELSE "powerlaw_deterrence_func"

\* self._deterrence_func(x, *self._deterrence_func_args)
ApplyDeterrence(func, x, args) ==
    IF func = "exponential_deterrence_func"
    THEN exponential_deterrence_func(x, args[1])
    ELSE powerlaw_deterrence_func(x, args[1])

\* x / R is integral, so that FExp applies
ExpArgIntegral(x, R) == R = 0 \/ x % Abs(R) = 0

-----------------------------------------------------------------------------
(* Tessellations *)

\* The columns hold floats; the missing values of a column (NaN) are replaced by 0
fillna(col) == [i \in DOMAIN col |-> IF IsNaN(col[i]) THEN Zero ELSE col[i]]

Pairs(n) == {p \in (1..n) \X (1..n) : p[1] < p[2]}

\* A tessellation of n locations: tile ids, relevance column, total outflow
\* column (or no such column) and the distance distfunc gives for each pair
\* of centroids
Tessellations(n, relevanceValues, outflowColumns) ==
    [ tile_ID : {SubSeq(TileIds, 1, n)},
      relevance : [1..n -> relevanceValues],
      has_tot_outflow : {TRUE},
      tot_outflow : outflowColumns,
      geometry : [Pairs(n) -> Distances] ]
    \cup
    [ tile_ID : {SubSeq(TileIds, 1, n)},
      relevance : [1..n -> relevanceValues],
      has_tot_outflow : {FALSE},
      tot_outflow : {[i \in 1..n |-> Zero]},
      geometry : [Pairs(n) -> Distances] ]

distfunc(tess, i, j) ==
    IF i = j THEN 0
    ELSE IF i < j THEN tess.geometry[<<i, j>>] ELSE tess.geometry[<<j, i>>]

\* distance_matrix starts as zeros; for each origin i and each j > i both
\* [i, j] and [j, i] are set to the distance of the centroids
compute_distance_matrix(tess, origins) ==
    LET n == Len(tess.tile_ID)
    IN  [i \in 1..n |-> [j \in 1..n |->
            IF i < j /\ i \in origins THEN distfunc(tess, i, j)
            ELSE IF j < i /\ j \in origins THEN distfunc(tess, j, i)
            ELSE 0]]

-----------------------------------------------------------------------------
(* Scores *)

\* np.putmask(m, np.isnan(m), 0.0); np.putmask(m, np.isinf(m), 0.0)
PutMaskZero(v) == IF IsNaN(v) \/ IsInf(v) THEN Zero ELSE v

compute_gravity_score(func, args, o_exp, d_exp, distance_matrix, relevances_orig, relevances_dest) ==
    LET n == Len(distance_matrix)
        trip == [i \in 1..n |-> [j \in 1..n |->
                    ApplyDeterrence(func, distance_matrix[i][j], args)]]
        dest == [j \in 1..n |-> FPow(relevances_dest[j], d_exp)]
        orig == [i \in 1..n |-> FPow(relevances_orig[i], o_exp)]
    IN  [i \in 1..n |-> [j \in 1..n |->
            PutMaskZero(FMul(FMul(trip[i][j], dest[j]), orig[i]))]]

Flatten(m) ==
    LET n == Len(m)
    IN  [k \in 1..(n * n) |-> m[((k - 1) \div n) + 1][((k - 1) % n) + 1]]

Reshape(flat, n) == [i \in 1..n |-> [j \in 1..n |-> flat[(i - 1) * n + j]]]

\* np.sum(m)
SumAll(m) == FSum(Flatten(m))

\* np.sum(m, axis=0): the sum of each column
SumAxis0(m) == [j \in 1..Len(m) |-> FSum([i \in 1..Len(m) |-> m[i][j]])]

\* m /= np.sum(m)
NormalizeGlobally(m) ==
    LET s == SumAll(m)
    IN  [i \in 1..Len(m) |-> [j \in 1..Len(m) |-> FDiv(m[i][j], s)]]

\* np.transpose(m / np.sum(m, axis=0)): the division broadcasts the column
\* sums over the rows, then the matrix is transposed
NormalizeSingly(m) ==
    LET s == SumAxis0(m)
        q == [i \in 1..Len(m) |-> [j \in 1..Len(m) |-> FDiv(m[i][j], s[j])]]
    IN  [i \in 1..Len(m) |-> [j \in 1..Len(m) |-> q[j][i]]]

-----------------------------------------------------------------------------
(* np.random.multinomial *)

RECURSIVE Product(_)
Product(S) ==
    IF S = <<>> THEN {<<>>}
    ELSE {<<h>> \o t : h \in Head(S), t \in Product(Tail(S))}

\* The loop of the sampler: category j takes binomial(dn, p[j] / Sum) of the
\* dn items left, the loop stops when none is left, and the last category
\* takes what remains.  binomial(dn, q) is 0 for q = 0, dn for q >= 1 and
\* any of 0..dn otherwise.
RECURSIVE Draws(_, _, _)
Draws(dn, p, Sum) ==
    IF Len(p) = 1 THEN {<<dn>>}
    ELSE LET ph == Head(p)
             taken == IF dn <= 0 \/ ph.n = 0 THEN {0}
                      ELSE IF ~FLess(ph, Sum) THEN {dn}
                      ELSE 0..dn
         IN  UNION {{<<c>> \o t : t \in Draws(dn - c, Tail(p), FSub(Sum, ph))} : c \in taken}

\* What the conversion of NaN to a C long gives: LONG_MIN (represented in 31
\* bits) or 0, depending on the platform
NaNAsLong == {-(2^30), 0}

\* pvals holding a NaN: numpy >= 1.17 raises ValueError; older releases run
\* the loop, whose first binomial draw is n - (long)NaN and leaves dn <= 0,
\* so the first category gets n - LONG_MIN (wrapped: LONG_MIN + n) or n and
\* the others stay 0.
MultinomialOfNaN(n, d) ==
    {[ok |-> FALSE, counts |-> <<>>]} \cup
    {[ok |-> TRUE,
      counts |-> [j \in 1..d |-> IF j = 1 THEN (IF c = 0 THEN n ELSE c + n) ELSE 0]] :
        c \in NaNAsLong}

\* np.random.multinomial(n, pvals): the outcomes of one draw
multinomial(n, pvals) ==
    IF \E j \in 1..Len(pvals) : IsNaN(pvals[j])
    THEN MultinomialOfNaN(n, Len(pvals))
    ELSE IF FLess(One, FSum(SubSeq(pvals, 1, Len(pvals) - 1)))
    THEN {[ok |-> FALSE, counts |-> <<>>]}      \* sum(pvals[:-1]) > 1.0
    ELSE {[ok |-> TRUE, counts |-> c] : c \in Draws(n, pvals, One)}

-----------------------------------------------------------------------------
(* generate *)

NoCall == [op |-> "none", tessellation |-> <<>>, out_format |-> "", flow_df |-> <<>>]

NoResult == [status |-> "none", out_format |-> "", trip_probs_matrix |-> <<>>,
             flow_matrix |-> <<>>, output |-> <<>>, X |-> <<>>, y |-> <<>>, params |-> <<>>]

\* the list of [origin id, destination id, flow] for the entries with
\* flow > 0., row by row
from_matrix_to_flowdf(flow_matrix, origins, tess) ==
    LET n == Len(flow_matrix)
        index2tileid == tess.tile_ID
        cells == [k \in 1..(n * n) |->
                    <<index2tileid[((k - 1) \div n) + 1], index2tileid[((k - 1) % n) + 1],
                      flow_matrix[((k - 1) \div n) + 1][((k - 1) % n) + 1]>>]
        kept(c) == IsPositive(c[3])
    IN  SelectSeq(cells, kept)

ToFloatMatrix(m) == [i \in 1..Len(m) |-> [j \in 1..Len(m[i]) |-> Num(m[i][j])]]

\* Samples with each row drawn from the total of all outflows
SamplesOfTotal(g_type, trip_probs_matrix, tot_outflows) ==
    LET n_locs == Len(trip_probs_matrix)
    IN  {[ok |-> \A i \in 1..n_locs : rows[i].ok,
          od_matrix |-> IF \A i \in 1..n_locs : rows[i].ok
                        THEN [i \in 1..n_locs |-> rows[i].counts] ELSE <<>>] :
            rows \in Product([i \in 1..n_locs |->
                        multinomial(FSum(tot_outflows).n, trip_probs_matrix[i])])}

\* The random draws of generate for out_format 'flows': one draw of
\* sum(tot_outflows) over the flattened matrix (globally constrained), or one
\* draw of tot_outflows[i] over row i for each origin i (singly constrained).
\* A draw that raises ends the call.
Samples(g_type, trip_probs_matrix, tot_outflows) ==
    LET n_locs == Len(trip_probs_matrix)
    IN  IF g_type = "globally constrained"
        THEN {[ok |-> d.ok,
               od_matrix |-> IF d.ok THEN Reshape(d.counts, n_locs) ELSE <<>>] :
                 d \in multinomial(FSum(tot_outflows).n, Flatten(trip_probs_matrix))}
        ELSE {[ok |-> \A i \in 1..n_locs : rows[i].ok,
               od_matrix |-> IF \A i \in 1..n_locs : rows[i].ok
                             THEN [i \in 1..n_locs |-> rows[i].counts] ELSE <<>>] :
                 rows \in Product([i \in 1..n_locs |->
                             multinomial(tot_outflows[i].n, trip_probs_matrix[i])])}

\* if out_format not in ['flows', 'probabilities']: out_format = "flows"
EffectiveFormat(out_format) ==
    IF out_format \notin {"flows", "probabilities"} THEN "flows" ELSE out_format

\* compute_gravity_score on the distance matrix of all locations, then the
\* normalization of the constraint regime
TripProbsMatrix(func, args, o_exp, d_exp, g_type, tess) ==
    LET relevances == fillna(tess.relevance)
        origins == 1..Len(tess.tile_ID)
        distance_matrix == compute_distance_matrix(tess, origins)
        scores == compute_gravity_score(func, args, o_exp, d_exp,
                                        distance_matrix, relevances, relevances)
    IN  IF g_type = "globally constrained"
        THEN NormalizeGlobally(scores)
        ELSE NormalizeSingly(scores)

\* generate(spatial_tessellation, out_format=...), given the outcome of its
\* random draws
generate(trip_probs_matrix, tess, out_format_arg, sample) ==
    LET out_format == EffectiveFormat(out_format_arg)
        origins == 1..Len(tess.tile_ID)
    IN  IF out_format = "flows" /\ ~tess.has_tot_outflow
        THEN [NoResult EXCEPT !.status = "KeyError", !.out_format = out_format]
        ELSE IF out_format = "flows"
        THEN IF sample.ok
             THEN LET od_matrix == ToFloatMatrix(sample.od_matrix)
                  IN  [NoResult EXCEPT !.status = "ok", !.out_format = out_format,
                          !.trip_probs_matrix = trip_probs_matrix,
                          !.flow_matrix = od_matrix,
                          !.output = from_matrix_to_flowdf(od_matrix, origins, tess)]
             ELSE [NoResult EXCEPT !.status = "ValueError", !.out_format = out_format,
                          !.trip_probs_matrix = trip_probs_matrix]
        ELSE [NoResult EXCEPT !.status = "ok", !.out_format = out_format,
                          !.trip_probs_matrix = trip_probs_matrix,
                          !.flow_matrix = trip_probs_matrix,
                          !.output = from_matrix_to_flowdf(trip_probs_matrix, origins, tess)]

NoSample == {[ok |-> TRUE, od_matrix |-> <<>>]}

\* the distances of the tessellation are in the domain FExp represents
Representable(tess) ==
    deterrence_func = "exponential_deterrence_func" =>
        \A p \in DOMAIN tess.geometry : ExpArgIntegral(tess.geometry[p], deterrence_func_args[1])

Generate(T, F) ==
    /\ pc = "idle"
    /\ \E tess \in T, out_format \in F :
          /\ Representable(tess)
          /\ call' = [NoCall EXCEPT !.op = "generate", !.tessellation = tess,
                                    !.out_format = out_format]
          /\ \E probs \in {TripProbsMatrix(deterrence_func, deterrence_func_args, origin_exp,
                                            destination_exp, gravity_type, tess)} :
                \E sample \in (IF EffectiveFormat(out_format) = "flows" /\ tess.has_tot_outflow
                               THEN Samples(gravity_type, probs, fillna(tess.tot_outflow))
                               ELSE NoSample) :
                    result' = generate(probs, tess, out_format, sample)
    /\ pc' = "returned"
    /\ UNCHANGED <<deterrence_func_type, deterrence_func, deterrence_func_args,
                   origin_exp, destination_exp, gravity_type>>

-----------------------------------------------------------------------------
(* fit *)

\* The entries of the design matrix are kept symbolic: c * f(x), with f the
\* identity on 1 ("one") or the natural logarithm ("log")
Real(v) == [c |-> v, f |-> "one", x |-> One]
LogOf(v) == [c |-> One, f |-> "log", x |-> v]            \* np.log(v)
Scale(k, e) == [e EXCEPT !.c = Fin(k.n * e.c.n, k.d * e.c.d)]

\* ci(i, number_locs): zeros with a 1. at the origin's index
ci(i, number_locs) == [k \in 1..number_locs |-> IF k = i THEN Real(One) ELSE Real(Zero)]

\* flow tables: records of (origin id, destination id, flow) over the ids
\* of the tessellation and one unknown id
FlowRecords(n) ==
    [ origin : {TileIds[i] : i \in 1..n} \cup {UnknownId},
      destination : {TileIds[i] : i \in 1..n} \cup {UnknownId},
      flow : 1..MaxFlow ]

FlowTables(n, maxLen) == UNION {[1..len -> FlowRecords(n)] : len \in 0..maxLen}

HasTile(tess, id) == \E i \in 1..Len(tess.tile_ID) : tess.tile_ID[i] = id

\* self.tileid2index[id]
tileid2index(tess, id) == CHOOSE i \in 1..Len(tess.tile_ID) : tess.tile_ID[i] = id

\* the last two columns of a row: np.log(weight_destination) and the
\* deterrence term, - dist for 'exponential' and np.log(dist) otherwise
DeterrenceTerm(type, dist) ==
    IF type = "exponential" THEN Real(Num(-dist)) ELSE LogOf(Num(dist))

\* The logarithm of the value of the deterrence function at a distance
\* x > 0: log(exp(- x / R)) = - x / R and log(x ** exponent) = exponent * log(x)
LogDeterrence(func, x, args) ==
    IF func = "exponential_deterrence_func"
    THEN Real(Fin(-x, args[1]))
    ELSE Scale(Num(args[1]), LogOf(Num(x)))

\* _update_training_set without the test of the destination weight
update_training_set_any_weight(type, g_type, tess, XY, flow_example) ==
    LET id_origin == flow_example.origin
        id_destination == flow_example.destination
        weights == fillna(tess.relevance)
    IN  IF id_origin = id_destination THEN XY
        ELSE IF ~HasTile(tess, id_origin) THEN XY
        ELSE IF ~HasTile(tess, id_destination) THEN XY
        ELSE [X |-> Append(XY.X,
                       <<Real(One)>> \o
                       (IF g_type = "globally constrained"
                        THEN <<LogOf(weights[tileid2index(tess, id_origin)])>>
                        ELSE ci(tileid2index(tess, id_origin), Len(tess.tile_ID))) \o
                       <<LogOf(weights[tileid2index(tess, id_destination)]),
                         DeterrenceTerm(type, distfunc(tess, tileid2index(tess, id_origin),
                                                       tileid2index(tess, id_destination)))>>),
              y |-> Append(XY.y, Num(flow_example.flow))]

\* _update_training_set(flow_example): X and y after the record
update_training_set(type, g_type, tess, XY, flow_example) ==
    LET id_origin == flow_example.origin
        id_destination == flow_example.destination
        trips == flow_example.flow
        weights == fillna(tess.relevance)
    IN  IF id_origin = id_destination THEN XY
        ELSE IF ~HasTile(tess, id_origin) THEN XY             \* KeyError: skipped
        ELSE IF ~HasTile(tess, id_destination) THEN XY        \* KeyError: skipped
        ELSE LET weight_origin == weights[tileid2index(tess, id_origin)]
                 weight_destination == weights[tileid2index(tess, id_destination)]
                 dist == distfunc(tess, tileid2index(tess, id_origin),
                                  tileid2index(tess, id_destination))
                 sc_vars == IF g_type = "globally constrained"
                            THEN <<LogOf(weight_origin)>>
                            ELSE ci(tileid2index(tess, id_origin), Len(tess.tile_ID))
             IN  IF weight_destination.n <= 0 THEN XY
                 ELSE [X |-> Append(XY.X, <<Real(One)>> \o sc_vars \o
                                          <<LogOf(weight_destination), DeterrenceTerm(type, dist)>>),
                       y |-> Append(XY.y, Num(trips))]

\* flow_df.apply(self._update_training_set, axis=1) from X, y = [], []
RECURSIVE TrainingSet(_, _, _, _, _)
TrainingSet(type, g_type, tess, XY, records) ==
    IF records = <<>> THEN XY
    ELSE TrainingSet(type, g_type, tess,
                     update_training_set(type, g_type, tess, XY, Head(records)),
                     Tail(records))

\* GLM(y, X, family=Poisson(log)).fit(): the regression solver is a black box
\* that raises (always on an empty design matrix) or returns one coefficient
\* for each column of X
GLMFit(y, X) ==
    {[ok |-> FALSE, params |-> <<>>]} \cup
    (IF X = <<>> THEN {}
     ELSE {[ok |-> TRUE, params |-> c] : c \in [1..Len(X[1]) -> ParamValues]})

\* fit_parameters with the origin exponent of the singly constrained model
\* set before the solver is run
fit_parameters_early(g_type, o_exp, d_exp, args, solved) ==
    IF ~solved.ok
    THEN [origin_exp |-> IF g_type = "globally constrained" THEN o_exp ELSE 1,
          destination_exp |-> d_exp, deterrence_func_args |-> args]
    ELSE IF g_type = "globally constrained"
    THEN [origin_exp |-> solved.params[2],
          destination_exp |-> solved.params[3],
          deterrence_func_args |-> <<solved.params[4]>>]
    ELSE [origin_exp |-> 1,
          destination_exp |-> solved.params[Len(solved.params) - 1],
          deterrence_func_args |-> <<solved.params[Len(solved.params)]>>]

\* fit_parameters reading the singly constrained coefficients at the
\* globally constrained positions
fit_parameters_fixed_positions(g_type, o_exp, d_exp, args, solved) ==
    IF ~solved.ok
    THEN [origin_exp |-> o_exp, destination_exp |-> d_exp, deterrence_func_args |-> args]
    ELSE IF g_type = "globally constrained"
    THEN [origin_exp |-> solved.params[2],
          destination_exp |-> solved.params[3],
          deterrence_func_args |-> <<solved.params[4]>>]
    ELSE [origin_exp |-> 1,
          destination_exp |-> solved.params[3],
          deterrence_func_args |-> <<solved.params[4]>>]

\* "Set best fit parameters": params[1], params[2], params[3] (globally
\* constrained) or 1., params[-2], params[-1] (singly constrained); nothing is
\* set when the solver raised
fit_parameters(g_type, o_exp, d_exp, args, solved) ==
    IF ~solved.ok
    THEN [origin_exp |-> o_exp, destination_exp |-> d_exp, deterrence_func_args |-> args]
    ELSE IF g_type = "globally constrained"
    THEN [origin_exp |-> solved.params[2],
          destination_exp |-> solved.params[3],
          deterrence_func_args |-> <<solved.params[4]>>]
    ELSE [origin_exp |-> 1,
          destination_exp |-> solved.params[Len(solved.params) - 1],
          deterrence_func_args |-> <<solved.params[Len(solved.params)]>>]

\* fit(flow_df): X and y are what is handed to the solver
Fit(T, maxLen) ==
    /\ pc = "idle"
    /\ \E tess \in T :
       \E table \in FlowTables(Len(tess.tile_ID), maxLen) :
       \E XY \in {TrainingSet(deterrence_func_type, gravity_type, tess,
                              [X |-> <<>>, y |-> <<>>], table)} :
       \E solved \in GLMFit(XY.y, XY.X) :
       \E fitted \in {fit_parameters(gravity_type, origin_exp, destination_exp,
                                     deterrence_func_args, solved)} :
          /\ call' = [NoCall EXCEPT !.op = "fit", !.tessellation = tess, !.flow_df = table]
          /\ result' = [NoResult EXCEPT
                            !.status = IF solved.ok THEN "ok" ELSE "SolverError",
                            !.X = XY.X, !.y = XY.y, !.params = solved.params]
          /\ origin_exp' = fitted.origin_exp
          /\ destination_exp' = fitted.destination_exp
          /\ deterrence_func_args' = fitted.deterrence_func_args
    /\ pc' = "returned"
    /\ UNCHANGED <<deterrence_func_type, deterrence_func, gravity_type>>

\* the caller takes the result (or the exception) of the call
Return ==
    /\ pc = "returned"
    /\ pc' = "idle"
    /\ call' = NoCall
    /\ result' = NoResult
    /\ UNCHANGED <<deterrence_func_type, deterrence_func, deterrence_func_args,
                   origin_exp, destination_exp, gravity_type>>

-----------------------------------------------------------------------------
(* Specifications *)

\* __init__ with any of the explored constructor arguments
Init ==
    /\ deterrence_func_type \in DeterrenceTypes
    /\ deterrence_func = SelectDeterrenceFunc(deterrence_func_type)
    /\ deterrence_func_args \in {<<a>> : a \in ParamValues}
    /\ origin_exp \in ParamValues
    /\ destination_exp \in ParamValues
    /\ gravity_type \in GravityTypes
    /\ pc = "idle"
    /\ call = NoCall
    /\ result = NoResult

\* total outflow columns: every value present, or one value missing
OutflowColumns(n) ==
    [1..n -> {Num(f) : f \in 0..MaxOutflow}] \cup
    {[i \in 1..n |-> IF i = m THEN NaN ELSE Num(MaxOutflow)] : m \in 1..n}

RelevanceValues == {Num(r) : r \in 0..MaxRelevance}

GenTessellations == Tessellations(NLocs, RelevanceValues, OutflowColumns(NLocs))

\* the tessellations of observed flow tables
FitTessellations ==
    {t \in Tessellations(FitLocs, RelevanceValues \cup {NaN}, {}) : ~t.has_tot_outflow}

SmallTessellations == Tessellations(FitLocs, RelevanceValues, OutflowColumns(FitLocs))

\* SpecGen: one generate call on a freshly constructed instance
GenerateCall == Generate(GenTessellations, {"flows", "probabilities"})
NextGen == GenerateCall
SpecGen == Init /\ [][NextGen]_vars

\* SpecFit: one fit call on a freshly constructed instance
InitFit ==
    /\ Init
    /\ deterrence_func_args = <<-2>>
    /\ origin_exp = 1
    /\ destination_exp = 1
FitCall == Fit(FitTessellations, MaxRecords)
NextFit == FitCall
SpecFit == InitFit /\ [][NextFit]_vars

\* Spec: any sequence of generate and fit calls on one instance
GenerateStep == Generate(SmallTessellations, OutFormats)
FitStep == Fit(FitTessellations, 1)
Next == GenerateStep \/ FitStep \/ Return
Spec == Init /\ [][Next]_vars

-----------------------------------------------------------------------------
(* Properties *)

GenerateEnded == pc = "returned" /\ call.op = "generate"
GenerateReturned == GenerateEnded /\ result.status = "ok"
FitEnded == pc = "returned" /\ call.op = "fit"
FitSucceeded == FitEnded /\ result.status = "ok"
Singly == gravity_type = "singly constrained"
Globally == gravity_type = "globally constrained"

CallLocs == 1..Len(call.tessellation.tile_ID)
CallOutflow(i) == fillna(call.tessellation.tot_outflow)[i]
CallRelevance(i) == fillna(call.tessellation.relevance)[i]

RECURSIVE SumOfFlows(_)
SumOfFlows(triples) ==
    IF triples = <<>> THEN Zero
    ELSE FAdd(Head(triples)[3], SumOfFlows(Tail(triples)))

FromOrigin(i) ==
    LET from(t) == t[1] = call.tessellation.tile_ID[i]
    IN  SelectSeq(result.output, from)

\* the raw score matrix P of the call: deterrence(D[i][j]) *
\* relevance[j]^destination_exp * relevance[i]^origin_exp, NaN and Inf put to 0
RawScores ==
    compute_gravity_score(deterrence_func, deterrence_func_args, origin_exp, destination_exp,
        compute_distance_matrix(call.tessellation, CallLocs),
        fillna(call.tessellation.relevance), fillna(call.tessellation.relevance))

RowSum(m, i) == FSum(m[i])

\* the probabilities of the call are all defined: none is NaN
ProbabilitiesDefined ==
    \A i \in CallLocs : \A j \in CallLocs : ~IsNaN(result.trip_probs_matrix[i][j])

\* C1: singly constrained generate with out_format 'flows': for every origin
\* with a positive total outflow, the flows output for that origin sum to its
\* total outflow exactly, whatever the draws give.
C1_OutflowConserved ==
    (GenerateReturned /\ Singly /\ result.out_format = "flows") =>
        \A i \in CallLocs :
            CallOutflow(i).n > 0 => SumOfFlows(FromOrigin(i)) = CallOutflow(i)

\* C2: globally constrained generate with out_format 'flows': the flows of the
\* output sum to the sum of the total outflows of all locations.
C2_TotalConserved ==
    (GenerateReturned /\ Globally /\ result.out_format = "flows") =>
        SumOfFlows(result.output) = FSum(fillna(call.tessellation.tot_outflow))

\* C3: singly constrained generate uses, for every origin i whose raw score
\* row has a non-zero sum and every destination j, the probability
\* P[i][j] / sum_k P[i][k], for every origin and destination exponent.
C3_RowNormalized ==
    (GenerateEnded /\ Singly /\ result.status # "KeyError") =>
        \A i \in CallLocs :
            RowSum(RawScores, i) # Zero =>
                \A j \in CallLocs :
                    result.trip_probs_matrix[i][j] = FDiv(RawScores[i][j], RowSum(RawScores, i))

\* C4: singly constrained generate never hands a NaN to the sampling step nor
\* places one in the matrix: every normalized row sums to 1 or is all zero.
C4_NoNaNRows ==
    (GenerateEnded /\ Singly /\ result.status # "KeyError") =>
        \A i \in CallLocs :
            /\ \A j \in CallLocs : ~IsNaN(result.trip_probs_matrix[i][j])
            /\ \/ RowSum(result.trip_probs_matrix, i) = One
               \/ \A j \in CallLocs : result.trip_probs_matrix[i][j] = Zero

\* C5 (as claimed): in both regimes, with out_format 'flows', a location whose
\* total outflow is 0 or missing has an all-zero row in the generated flow
\* matrix and no outgoing flow in the output.  Stated for the calls whose
\* probabilities are all defined, where the draws are those of the sampler.
C5_ZeroOutflowNoFlowAnyRegime ==
    (GenerateReturned /\ result.out_format = "flows" /\ ProbabilitiesDefined) =>
        \A i \in CallLocs :
            CallOutflow(i) = Zero =>
                /\ \A j \in CallLocs : result.flow_matrix[i][j] = Zero
                /\ FromOrigin(i) = <<>>

\* C5 (amended): in the singly constrained regime, with out_format 'flows', a
\* location whose total outflow is 0 or missing has no outgoing flow in the
\* output, whatever the draws give; the globally constrained regime draws
\* from the grand total only.
C5_ZeroOutflowNoFlowSingly ==
    (GenerateReturned /\ Singly /\ result.out_format = "flows") =>
        \A i \in CallLocs : CallOutflow(i) = Zero => FromOrigin(i) = <<>>

\* a singly constrained draw in which a location of positive relevance has no
\* outflow (0 or missing) while the others send flows
C5_Witness ==
    /\ GenerateReturned /\ Singly /\ result.out_format = "flows"
    /\ \E i \in CallLocs :
          /\ IsNaN(call.tessellation.tot_outflow[i])
          /\ CallRelevance(i).n > 0
          /\ FromOrigin(i) = <<>>
    /\ \E i \in CallLocs : FromOrigin(i) # <<>>
    /\ \A i \in CallLocs : CallRelevance(i).n > 0

\* C6: the configuration changes only at the end of a fit whose regression
\* succeeded: generate calls and fit calls whose solver fails leave every
\* configuration field as it was.
C6_ConfigChangesOnlyOnFit ==
    [][(config' # config \/ deterrence_func' # deterrence_func) =>
          (pc = "idle" /\ call'.op = "fit" /\ result'.status = "ok")]_vars

\* a fit on a table of self-loop records only: the design matrix is empty and
\* the solver fails
C6_Witness ==
    /\ FitEnded /\ result.status = "SolverError"
    /\ call.flow_df # <<>>
    /\ \A k \in 1..Len(call.flow_df) : call.flow_df[k].origin = call.flow_df[k].destination
    /\ result.X = <<>>

\* the records the claim keeps: origin # destination, both ids in the
\* tessellation, destination relevance > 0
KeptRecord(r) ==
    /\ r.origin # r.destination
    /\ \E i \in CallLocs : call.tessellation.tile_ID[i] = r.origin
    /\ \E i \in CallLocs : call.tessellation.tile_ID[i] = r.destination
    /\ \A i \in CallLocs :
          call.tessellation.tile_ID[i] = r.destination => CallRelevance(i).n > 0

KeptRecords == SelectSeq(call.flow_df, KeptRecord)

IndexOfId(id) == CHOOSE i \in CallLocs : call.tessellation.tile_ID[i] = id

\* C7: X and y have the same length and hold one entry, in table order, for
\* each record with origin # destination, both ids known and destination
\* relevance > 0; every other record adds nothing; y's entry is the flow.
C7_TrainingSetIsKeptRecords ==
    FitEnded =>
        /\ Len(result.X) = Len(KeptRecords)
        /\ Len(result.y) = Len(KeptRecords)
        /\ \A k \in 1..Len(KeptRecords) :
              /\ result.y[k] = Num(KeptRecords[k].flow)
              /\ result.X[k][Len(result.X[k]) - 1] =
                     LogOf(CallRelevance(IndexOfId(KeptRecords[k].destination)))

\* a table with a kept record after a skipped one
C7_Witness ==
    /\ FitEnded
    /\ Len(call.flow_df) = 2
    /\ Len(result.y) = 1
    /\ result.y[1] = Num(call.flow_df[2].flow)
    /\ call.flow_df[1].flow # call.flow_df[2].flow
    /\ call.flow_df[1].origin # call.flow_df[1].destination
    /\ call.flow_df[1].origin # UnknownId
    /\ call.flow_df[1].destination # UnknownId

ClaimedDeterrenceTerm(r) ==
    LET dist == distfunc(call.tessellation, IndexOfId(r.origin), IndexOfId(r.destination))
    IN  IF deterrence_func_type = "exponential" THEN Real(Num(-dist)) ELSE LogOf(Num(dist))

\* C8: globally constrained rows are [1, log(origin relevance),
\* log(destination relevance), deterrence term] and fit stores coefficient[1],
\* coefficient[2], [coefficient[3]]; singly constrained rows are [1, one-hot
\* block of width n with the 1 at the origin's index, log(destination
\* relevance), deterrence term] and fit stores 1.0, coefficient[n+1],
\* [coefficient[n+2]] (indices from 0).
C8_CoefficientPositions ==
    FitSucceeded =>
        LET n == Len(call.tessellation.tile_ID)
            coefficient(k) == result.params[k + 1]
        IN  IF Globally
            THEN /\ \A k \in 1..Len(result.X) :
                        result.X[k] = <<Real(One),
                                        LogOf(CallRelevance(IndexOfId(KeptRecords[k].origin))),
                                        LogOf(CallRelevance(IndexOfId(KeptRecords[k].destination))),
                                        ClaimedDeterrenceTerm(KeptRecords[k])>>
                 /\ Len(result.params) = 4
                 /\ origin_exp = coefficient(1)
                 /\ destination_exp = coefficient(2)
                 /\ deterrence_func_args = <<coefficient(3)>>
            ELSE /\ \A k \in 1..Len(result.X) :
                        /\ Len(result.X[k]) = n + 3
                        /\ result.X[k][1] = Real(One)
                        /\ \A m \in 1..n :
                              result.X[k][1 + m] =
                                  IF m = IndexOfId(KeptRecords[k].origin)
                                  THEN Real(One) ELSE Real(Zero)
                        /\ result.X[k][n + 2] =
                               LogOf(CallRelevance(IndexOfId(KeptRecords[k].destination)))
                        /\ result.X[k][n + 3] = ClaimedDeterrenceTerm(KeptRecords[k])
                 /\ Len(result.params) = n + 3
                 /\ origin_exp = 1
                 /\ destination_exp = coefficient(n + 1)
                 /\ deterrence_func_args = <<coefficient(n + 2)>>

\* a singly constrained fit whose coefficients differ from column to column
C8_Witness ==
    /\ FitSucceeded /\ Singly
    /\ Len(result.X) = 2
    /\ result.X[1] # result.X[2]
    /\ destination_exp # deterrence_func_args[1]
    /\ result.params[Len(result.params) - 2] # destination_exp

\* C9: generate never outputs a self-loop: no triple of the output has its
\* origin id equal to its destination id, in either regime, output format
\* and deterrence kind.  Stated for the calls whose probabilities are all
\* defined.
C9_NoSelfLoop ==
    (GenerateReturned /\ ProbabilitiesDefined) =>
        \A k \in 1..Len(result.output) : result.output[k][1] # result.output[k][2]

\* C10: when fit stores the coefficient c of the deterrence term column as
\* the deterrence parameter, then for every distance d > 0
\* log(deterrence_fn(d, c)) = c * deterrence_term(d).
C10_DeterrenceParameterAgrees ==
    FitSucceeded =>
        \A d \in Distances :
            LogDeterrence(deterrence_func, d, deterrence_func_args) =
                Scale(Num(result.params[Len(result.params)]),
                      DeterrenceTerm(deterrence_func_type, d))

====
